---------------------------- MODULE Spec2Model ----------------------------
(***************************************************************************)
(* A model of the MapTracker component of src/src/App.jsx: the pure        *)
(* trajectory functions (accuracy filter, Kalman smoother, zigzag remover, *)
(* point thinner, polyline decoder) and the asynchronous pipeline          *)
(* fetchMapData -> processPoints -> fetchORSSnap -> fetchMapboxRoute,      *)
(* every run of which suspends at its network calls and writes the         *)
(* component's React state.  Spec and SpecRun are the component; SpecThin, *)
(* SpecZigzag, SpecKalman and SpecDecode are the module-level functions    *)
(* called on their own, over bounded sets of arguments.                    *)
(*                                                                         *)
(* Numbers.  JavaScript numbers are doubles; the model uses integers in    *)
(* fixed point.  Raw, refined and snapped coordinates are integers in      *)
(* units of 1e-7 degree (the resolution of toFixed(7)); decoded route      *)
(* coordinates are integers in units of 1e-5 degree (the polyline scale);  *)
(* distances (computed or service-reported) are in centimetres; bearings   *)
(* are in centidegrees.  A coordinate                                      *)
(* string written by toString()/toFixed(7) and read back by parseFloat()   *)
(* is represented by the fixed-point number it denotes.                    *)
(***************************************************************************)
EXTENDS Integers, Sequences, FiniteSets, TLC

(***************************************************************************)
(* Generic helpers                                                         *)
(***************************************************************************)
Abs(x) == IF x < 0 THEN -x ELSE x

\* x / d rounded to the nearest integer (d > 0), as a floating-point division is
RoundDiv(x, d) == IF x >= 0 THEN (2 * x + d) \div (2 * d) ELSE -((2 * (-x) + d) \div (2 * d))

RECURSIVE SqrtSearch(_, _, _)
SqrtSearch(n, lo, hi) ==
  IF lo >= hi THEN lo
  ELSE LET mid == (lo + hi + 1) \div 2
       IN IF mid * mid <= n THEN SqrtSearch(n, mid, hi) ELSE SqrtSearch(n, lo, mid - 1)

\* Math.sqrt on a non-negative integer, rounded down
ISqrt(n) == SqrtSearch(n, 0, 46340)

RECURSIVE SumSeq(_)
SumSeq(s) == IF s = <<>> THEN 0 ELSE Head(s) + SumSeq(Tail(s))

RECURSIVE Flatten(_)
Flatten(ss) == IF ss = <<>> THEN <<>> ELSE Head(ss) \o Flatten(Tail(ss))

\* Array.prototype.slice(from, to) with 0-based, end-exclusive indices
Slice(s, from, to) == SubSeq(s, from + 1, to)

Min(a, b) == IF a < b THEN a ELSE b

(***************************************************************************)
(* GeoMath (lines 15-35).  All model coordinates lie within a few          *)
(* thousandths of a degree of (0, 0), where the haversine formula reduces  *)
(* to the planar distance and the forward azimuth to atan2(dLon, dLat).    *)
(***************************************************************************)
\* Earth radius R = 6371000 m times pi/180 times 1e-7 degree, in units of
\* 1e-5 cm: the length of one coordinate unit along a great circle
CmPerUnitE5 == 111195

calculateDistance(lat1, lon1, lat2, lon2) ==
  LET dLat == lat2 - lat1
      dLon == lon2 - lon1
  IN (ISqrt(dLat * dLat + dLon * dLon) * CmPerUnitE5) \div 100000

\* atan(a / b) in centidegrees for 0 <= a <= b, b > 0 (error below 0.25 degree)
AtanCentiDeg(a, b) ==
  LET t == (a * 1000) \div b
  IN (4500 * t + (1564 * t * (1000 - t)) \div 1000) \div 1000

\* toDegrees(Math.atan2(y, x)) in centidegrees, in (-18000, 18000]
Atan2CentiDeg(y, x) ==
  LET ay == Abs(y)
      ax == Abs(x)
      base == IF ax = 0 /\ ay = 0 THEN 0
              ELSE IF ay <= ax THEN AtanCentiDeg(ay, ax)
              ELSE 9000 - AtanCentiDeg(ax, ay)
      upper == IF x >= 0 THEN base ELSE 18000 - base
  IN IF y >= 0 THEN upper ELSE -upper

calculateBearing(lat1, lon1, lat2, lon2) ==
  (Atan2CentiDeg(lon2 - lon1, lat2 - lat1) + 36000) % 36000

(***************************************************************************)
(* Kalman filter (lines 38-75).  The covariance p is held in units of      *)
(* 1e-8, the gain k in units of 1e-4 and the estimates xLat, xLng in units *)
(* of 1e-8 degree; toFixed(7) rounds an estimate to 1e-7 degree.           *)
(***************************************************************************)
KalmanQ == 1000
KalmanR == 10000
KalmanP0 == 100000000
KScale == 10000
XScale == 10

\* k = p / (p + r), evaluated as 1 - r / (p + r) to stay within machine integers
KalmanGain(p) == KScale - RoundDiv(KalmanR * KScale, p + KalmanR)

\* p = (1 - k) * p
KalmanCovariance(k, p) == RoundDiv((KScale - k) * p, KScale)

\* x = x + k * (measurement - x)
KalmanEstimate(x, k, m) == x + RoundDiv(k * (m - x), KScale)

\* toFixed(7) cutting the digits after the seventh instead of rounding
ToFixed7Truncating(x) == IF x >= 0 THEN x \div XScale ELSE -((-x) \div XScale)

ToFixed7(x) == RoundDiv(x, XScale)

\* parseFloat of a coordinate, in units of 1e-8 degree; resolution is the
\* number of these units in one unit of the coordinate as given (XScale for
\* the 7-decimal coordinates of the pipeline, 1 for coordinates of 8 decimals)
parseFloat(coordinate, resolution) == coordinate * resolution

\* the locals p, k, xLat, xLng after lines 56-59
LatitudeFilter(locals, measurementLat) ==
  LET p == locals.p + KalmanQ
      k == KalmanGain(p)
  IN [locals EXCEPT !.k = k,
                    !.xLat = KalmanEstimate(locals.xLat, k, measurementLat),
                    !.p = KalmanCovariance(k, p)]

\* the locals after lines 62-65: p goes on from the latitude filter's value
LongitudeFilter(locals, measurementLng) ==
  LET p == locals.p + KalmanQ
      k == KalmanGain(p)
  IN [locals EXCEPT !.k = k,
                    !.xLng = KalmanEstimate(locals.xLng, k, measurementLng),
                    !.p = KalmanCovariance(k, p)]

\* lines 67-71
Smoothed(locals, point) ==
  [latitude |-> ToFixed7(locals.xLat), longitude |-> ToFixed7(locals.xLng),
   createdAt |-> point.createdAt]

\* lines 43-47; k is declared without a value, 0 stands for it
KalmanLocals(points, resolution) ==
  [p |-> KalmanP0, k |-> 0,
   xLat |-> parseFloat(points[1].latitude, resolution),
   xLng |-> parseFloat(points[1].longitude, resolution)]

RECURSIVE KalmanLoop(_, _, _, _)
KalmanLoop(points, n, locals, resolution) ==
  IF n > Len(points) THEN <<>>
  ELSE LET point == points[n]
           afterLat == LatitudeFilter(locals, parseFloat(point.latitude, resolution))
           afterLng == LongitudeFilter(afterLat, parseFloat(point.longitude, resolution))
       IN <<Smoothed(afterLng, point)>> \o KalmanLoop(points, n + 1, afterLng, resolution)

\* applyKalmanFilter on coordinates of the given resolution
KalmanFilter(points, resolution) ==
  IF Len(points) = 0 THEN <<>>
  ELSE KalmanLoop(points, 1, KalmanLocals(points, resolution), resolution)

applyKalmanFilter(points) == KalmanFilter(points, XScale)

(***************************************************************************)
(* Zigzag remover (lines 78-105); threshold in centidegrees                *)
(***************************************************************************)
ZigzagThreshold == 6000

\* the difference of the two bearings without the wrap of line 97
BearingDiffNoWrap(prev, curr, next) ==
  Abs(calculateBearing(curr.latitude, curr.longitude, next.latitude, next.longitude)
      - calculateBearing(prev.latitude, prev.longitude, curr.latitude, curr.longitude))

BearingDiff(prev, curr, next) ==
  LET bearing1 == calculateBearing(prev.latitude, prev.longitude,
                                   curr.latitude, curr.longitude)
      bearing2 == calculateBearing(curr.latitude, curr.longitude,
                                   next.latitude, next.longitude)
      diff == Abs(bearing2 - bearing1)
  IN IF diff > 18000 THEN 36000 - diff ELSE diff

ZigzagKeeps(points, i, threshold) ==
  BearingDiff(points[i - 1], points[i], points[i + 1]) < threshold

\* the loop of lines 83-101, i being the 1-based position of curr
RECURSIVE ZigzagLoop(_, _, _, _)
ZigzagLoop(points, i, result, threshold) ==
  IF i > Len(points) - 1 THEN result
  ELSE ZigzagLoop(points, i + 1,
                  IF ZigzagKeeps(points, i, threshold)
                  THEN Append(result, points[i]) ELSE result,
                  threshold)

removeZigzags(points, threshold) ==
  IF Len(points) < 3 THEN points
  ELSE Append(ZigzagLoop(points, 2, <<points[1]>>, threshold), points[Len(points)])

(***************************************************************************)
(* Point thinner (lines 108-124); minDistance in centimetres               *)
(***************************************************************************)
ThinDistance == 4000

RECURSIVE ThinLoop(_, _, _, _)
ThinLoop(points, i, result, minDistance) ==
  IF i > Len(points) THEN result
  ELSE LET last == result[Len(result)]
           current == points[i]
           dist == calculateDistance(last.latitude, last.longitude,
                                     current.latitude, current.longitude)
       IN ThinLoop(points, i + 1,
                   IF dist >= minDistance THEN Append(result, current) ELSE result,
                   minDistance)

\* a thinner that, like removeZigzags, pushes the last point whatever its distance
thinPointsKeepLast(points, minDistance) ==
  IF Len(points) < 2 THEN points
  ELSE LET result == ThinLoop(points, 2, <<points[1]>>, minDistance)
       IN IF result[Len(result)] = points[Len(points)] THEN result
          ELSE Append(result, points[Len(points)])

thinPoints(points, minDistance) ==
  IF Len(points) < 2 THEN points
  ELSE ThinLoop(points, 2, <<points[1]>>, minDistance)

(***************************************************************************)
(* Polyline decoder (lines 302-331).  `encoded` is the sequence of the     *)
(* string's character codes.  A 32-bit integer of the bitwise operators    *)
(* is the set of the positions of its one bits (bit 31 is the sign).       *)
(***************************************************************************)
Bits32 == 0..31

RECURSIVE Pow2(_)
Pow2(k) == IF k = 0 THEN 1 ELSE 2 * Pow2(k - 1)

\* the bits of v & 0x1f; v may be negative (two's complement)
Low5Bits(v) == {k \in 0..4 : ((v % 32) \div Pow2(k)) % 2 = 1}

\* x << shift: the shift count is taken modulo 32, bits leaving the word are lost
ShiftLeft(bits, shift) == {k + (shift % 32) : k \in bits} \cap Bits32

\* x >> 1, sign-propagating
ShiftRight1(bits) == {k - 1 : k \in bits \ {0}} \cup (IF 31 \in bits THEN {31} ELSE {})

\* ~x
BitNot(bits) == Bits32 \ bits

\* the sum of the weights of the bits at positions from..30
RECURSIVE SumPow2From(_, _)
SumPow2From(bits, from) ==
  IF from > 30 THEN 0
  ELSE (IF from \in bits THEN Pow2(from) ELSE 0) + SumPow2From(bits, from + 1)

SumPow2(bits) == SumPow2From(bits, 0)

\* the signed value of a 32-bit word
ToInt32(bits) ==
  IF 31 \in bits THEN (SumPow2(bits \ {31}) - 2147483647) - 1 ELSE SumPow2(bits)

\* a reader that, past the end of the string, neither advances nor leaves its loop
ReadCharStuck(encoded, index, shift, result) ==
  IF index >= Len(encoded)
  THEN [result |-> result, index |-> index, shift |-> shift, again |-> TRUE]
  ELSE LET b == encoded[index + 1] - 63
       IN [result |-> result \cup ShiftLeft(Low5Bits(b), shift), index |-> index + 1,
           shift |-> shift + 5, again |-> b >= 32]

\* one pass of the body of a do-while loop (lines 310-312 or 320-322) and its
\* test b >= 0x20: past the end of the string charCodeAt yields NaN, which
\* adds no bit and fails the test
ReadChar(encoded, index, shift, result) ==
  IF index >= Len(encoded)
  THEN [result |-> result, index |-> index + 1, shift |-> shift + 5, again |-> FALSE]
  ELSE LET b == encoded[index + 1] - 63
       IN [result |-> result \cup ShiftLeft(Low5Bits(b), shift), index |-> index + 1,
           shift |-> shift + 5, again |-> b >= 32]

\* the do-while loops of lines 309-313 and 319-323
RECURSIVE ReadDelta(_, _, _, _)
ReadDelta(encoded, index, shift, result) ==
  LET read == ReadChar(encoded, index, shift, result)
  IN IF read.again THEN ReadDelta(encoded, read.index, read.shift, read.result)
     ELSE [result |-> read.result, index |-> read.index]

\* a decode that shifts the sign bit out without complementing
ZigzagDecodeUnsigned(result) == ToInt32(ShiftRight1(result))

\* (result & 1) ? ~(result >> 1) : (result >> 1)
ZigzagDecode(result) ==
  ToInt32(IF 0 \in result THEN BitNot(ShiftRight1(result)) ELSE ShiftRight1(result))

RECURSIVE DecodeLoop(_, _, _, _, _)
DecodeLoop(encoded, index, lat, lng, pts) ==
  IF ~(index < Len(encoded)) THEN pts
  ELSE LET d1 == ReadDelta(encoded, index, 0, {})
           lat2 == lat + ZigzagDecode(d1.result)
           d2 == ReadDelta(encoded, d1.index, 0, {})
           lng2 == lng + ZigzagDecode(d2.result)
       IN DecodeLoop(encoded, d2.index, lat2, lng2, Append(pts, <<lat2, lng2>>))

decodePolyline(encoded) == DecodeLoop(encoded, 0, 0, 0, <<>>)

(***************************************************************************)
(* Accuracy filter and refinement of processPoints (lines 174-212).  A raw *)
(* element is [isArray, coords, hasAccuracy, accuracy, timestamp]: coords  *)
(* is element?.location?.coordinates (isArray false when it is missing or  *)
(* no array), as <<longitude, latitude, ...>>.                             *)
(***************************************************************************)
AccuracyLimit == 15

\* a filter that also keeps a fix whose accuracy is the limit itself
AccuracyPassesInclusive(element) ==
  \/ ~element.hasAccuracy
  \/ element.accuracy = 0
  \/ element.accuracy <= AccuracyLimit

\* !element.accuracy || element.accuracy < 15
AccuracyPasses(element) ==
  \/ ~element.hasAccuracy
  \/ element.accuracy = 0
  \/ element.accuracy < AccuracyLimit

\* Array.isArray(coords) && coords.length === 2
HasCoordinatePair(element) == element.isArray /\ Len(element.coords) = 2

ToPoint(element) ==
  [latitude |-> element.coords[2], longitude |-> element.coords[1],
   createdAt |-> element.timestamp]

RECURSIVE ExtractPoints(_)
ExtractPoints(rawData) ==
  IF rawData = <<>> THEN <<>>
  ELSE LET element == Head(rawData)
       IN (IF HasCoordinatePair(element) /\ AccuracyPasses(element)
           THEN <<ToPoint(element)>> ELSE <<>>)
          \o ExtractPoints(Tail(rawData))

\* the test of line 191
MinPoints == 2

\* a test that stops only on no point at all
TooFewPointsNone(extractedPoints) == Len(extractedPoints) < 1

TooFewPoints(extractedPoints) == Len(extractedPoints) < MinPoints

\* lines 196-198
RefinePoints(extractedPoints) ==
  thinPoints(removeZigzags(applyKalmanFilter(extractedPoints), ZigzagThreshold),
             ThinDistance)

\* lines 203-211, in centimetres
RECURSIVE PathDistance(_)
PathDistance(processed) ==
  IF Len(processed) < 2 THEN 0
  ELSE calculateDistance(processed[1].latitude, processed[1].longitude,
                         processed[2].latitude, processed[2].longitude)
       + PathDistance(Tail(processed))

(***************************************************************************)
(* Snap response handling (lines 247-255).  A locations entry is           *)
(* [isNull, hasLocation, location]: null, or an object whose location is   *)
(* <<longitude, latitude>> (hasLocation false: the object has none, and    *)
(* reading loc.location[1] throws).                                        *)
(***************************************************************************)
DateNow == 1000

NonNull(locations) == SelectSeq(locations, LAMBDA loc : ~loc.isNull)

SnapThrows(locations) ==
  \E k \in 1..Len(locations) : ~locations[k].isNull /\ ~locations[k].hasLocation

SnappedPoints(locations) ==
  LET kept == NonNull(locations)
  IN [k \in 1..Len(kept) |->
        [latitude |-> kept[k].location[2], longitude |-> kept[k].location[1],
         createdAt |-> DateNow]]

(***************************************************************************)
(* Chunk loop of fetchMapboxRoute (lines 270-273)                          *)
(***************************************************************************)
ChunkSize == 25
MinSegment == 2

SegmentEnd(pointsForRoute, i) == Min(i + ChunkSize, Len(pointsForRoute))

Segment(pointsForRoute, i) == Slice(pointsForRoute, i, SegmentEnd(pointsForRoute, i))

\* a loop without the break of line 273
LoopIssuesNoBreak(pointsForRoute, i) == i < Len(pointsForRoute)

\* the loop condition of line 270 holds and the break of line 273 is not taken
LoopIssues(pointsForRoute, i) ==
  /\ i < Len(pointsForRoute)
  /\ ~(Len(Segment(pointsForRoute, i)) < MinSegment)

\* a request as issued: of a directions request, from and to bound the slice
\* of waypoints it carries; of a snap request, to is the number of locations
Request(service, from, to) ==
  [service |-> service, from |-> from, to |-> to, status |-> "pending",
   response |-> <<>>]

\* a chunk's geometry put before the route accumulated so far
ConcatDecodedBefore(allPoints, decoded) == decoded \o allPoints

\* line 290
ConcatDecoded(allPoints, decoded) == allPoints \o decoded

\* a loop that starts the requests of all remaining chunks together
RECURSIVE DirectionsRequestsTogether(_, _)
DirectionsRequestsTogether(pointsForRoute, i) ==
  IF i < Len(pointsForRoute) /\ Len(pointsForRoute) - i >= MinSegment
  THEN <<Request("directions", i, SegmentEnd(pointsForRoute, i))>>
       \o DirectionsRequestsTogether(pointsForRoute, i + ChunkSize)
  ELSE <<>>

\* the requests the loop issues when it reaches index i: the one fetch of line 281
DirectionsRequests(pointsForRoute, i) ==
  <<Request("directions", i, SegmentEnd(pointsForRoute, i))>>

(***************************************************************************)
(* The component.  React state (lines 139-148), and the runs of            *)
(* fetchMapData: run r is the r-th call, runs[r] holds its position (pc),  *)
(* its local variables, and a record of what it did (the requests it       *)
(* issued with their outcome, its console.error and alert calls).          *)
(***************************************************************************)
VARIABLES loading, points, filteredPoints, orsPoints, mapboxPoints,
          totalDistance, center, userId, date, nruns, runs, call

\* the component: its React state and its runs
component == <<loading, points, filteredPoints, orsPoints, mapboxPoints,
               totalDistance, center, userId, date, nruns, runs>>

\* call is one call of a module-level function made outside the component (the
\* function, its arguments, its local variables and its return value)
vars == <<component, call>>

display == <<points, filteredPoints, orsPoints, mapboxPoints, totalDistance, center>>

MaxRuns == 2
RunIds == 1..MaxRuns

UserIds == {"user-a", "user-b"}
Dates == {"2025-10-16", "2025-10-17"}

\* the default centre of line 145, the origin of the model's coordinates
DefaultCenter == <<0, 0>>

(***************************************************************************)
(* What the three services may answer.  A call ends in "networkError"      *)
(* (fetch rejects), "malformed" (response.json() rejects), "httpError" (a  *)
(* non-success status, whose body is an error object without the expected  *)
(* fields) or "ok" with a body.                                            *)
(***************************************************************************)
Failures == {"networkError", "malformed", "httpError"}

\* the failures that reach the catch of a call whose status is not tested
ThrownFailures == {"networkError", "malformed"}

Element(coords, accuracy, timestamp) ==
  [isArray |-> TRUE, coords |-> coords, hasAccuracy |-> TRUE,
   accuracy |-> accuracy, timestamp |-> timestamp]

ElementNoAccuracy(coords, timestamp) ==
  [isArray |-> TRUE, coords |-> coords, hasAccuracy |-> FALSE,
   accuracy |-> 0, timestamp |-> timestamp]

ElementNoCoords(accuracy, timestamp) ==
  [isArray |-> FALSE, coords |-> <<>>, hasAccuracy |-> TRUE,
   accuracy |-> accuracy, timestamp |-> timestamp]

\* body?.data is no array
BodyNotArray == [isArray |-> FALSE, data |-> <<>>]

BodyEmpty == [isArray |-> TRUE, data |-> <<>>]

\* the three fixes of the accuracy example (accuracies 5, 20, 8), moved to the origin
BodyExample ==
  [isArray |-> TRUE,
   data |-> <<Element(<<0, 0>>, 5, 1), Element(<<3000, 3000>>, 20, 2),
              Element(<<8000, 8000>>, 8, 3)>>]

\* one surviving fix: accuracy 15 and 16 dropped, accuracy 0 kept, no pair skipped
BodyEdges ==
  [isArray |-> TRUE,
   data |-> <<Element(<<100, 100>>, 15, 1), Element(<<200, 200>>, 0, 2),
              Element(<<300, 300, 7>>, 5, 3), ElementNoCoords(5, 4),
              Element(<<400, 400>>, 16, 5)>>]

\* two surviving fixes: no accuracy, accuracy 14
BodyKept ==
  [isArray |-> TRUE,
   data |-> <<ElementNoAccuracy(<<0, 500>>, 1), Element(<<5000, 500>>, 15, 2),
              Element(<<9000, 500>>, 14, 3)>>]

Bodies == {BodyNotArray, BodyEmpty, BodyExample, BodyEdges, BodyKept}

Match(j) == [isNull |-> FALSE, hasLocation |-> TRUE, location |-> <<10 * j, 5 * j>>]
NoMatch == [isNull |-> TRUE, hasLocation |-> FALSE, location |-> <<>>]
NoLocation == [isNull |-> FALSE, hasLocation |-> FALSE, location |-> <<>>]

Matches(n) == [j \in 1..n |-> Match(j)]

\* data?.locations || [] of the snap responses: every number of matches up to
\* MaxSnapped, responses with unmatched (null) entries, and one with an entry
\* that has no location
MaxSnapped == 52

SnapBodies ==
  {Matches(n) : n \in 0..MaxSnapped}
  \cup { <<NoMatch, Match(1)>>,
         <<Match(1), NoMatch>> \o [j \in 1..25 |-> Match(j + 1)] \o <<NoMatch>>,
         <<NoMatch, NoMatch>>,
         <<Match(1), NoLocation>> }

\* data of a directions response: routes missing or empty, or routes[0] with
\* its geometry (hasGeometry false: none) and distance
NoRoutes == [hasRoute |-> FALSE, hasGeometry |-> FALSE, geometry |-> <<>>, distance |-> 0]
Route(geometry, distance) ==
  [hasRoute |-> TRUE, hasGeometry |-> TRUE, geometry |-> geometry, distance |-> distance]
RouteNoGeometry ==
  [hasRoute |-> TRUE, hasGeometry |-> FALSE, geometry |-> <<>>, distance |-> 700]

\* "??" decodes to the point (0, 0); "ACAA@@" to the points (1, 2), (2, 3), (1, 2);
\* "ACA" is "ACAA" cut after the latitude delta of its second point
RouteBodies ==
  { NoRoutes, Route(<<63, 63>>, 10000), Route(<<65, 67, 65, 65, 64, 64>>, 25000),
    RouteNoGeometry, Route(<<65, 67, 65>>, 300) }

(***************************************************************************)
(* Init: the component as constructed (lines 139-148), before its effect   *)
(* has run.                                                                *)
(***************************************************************************)
IdleRun ==
  [pc |-> "idle", url |-> <<>>, extractedPoints |-> <<>>, pointsForRoute |-> <<>>,
   i |-> 0, allPoints |-> <<>>, totalDist |-> 0,
   requests |-> <<>>, console |-> <<>>, alerts |-> 0]

NoCall == [fn |-> "none"]

Constructed ==
  /\ loading = TRUE
  /\ points = <<>>
  /\ filteredPoints = <<>>
  /\ orsPoints = <<>>
  /\ mapboxPoints = <<>>
  /\ totalDistance = 0
  /\ center = DefaultCenter
  /\ userId = "user-a"
  /\ date = "2025-10-16"
  /\ nruns = 0
  /\ runs = [r \in RunIds |-> IdleRun]

Init == Constructed /\ call = NoCall

(***************************************************************************)
(* Starting a run: fetchMapData up to its first await (lines 151-156)      *)
(***************************************************************************)
StartRun(r) ==
  /\ loading' = TRUE
  /\ nruns' = r
  /\ runs' = [runs EXCEPT ![r] =
                [IdleRun EXCEPT !.pc = "trajectory",
                                !.url = <<userId', date'>>,
                                !.requests = <<Request("trajectory", 0, 0)>>]]
  /\ UNCHANGED <<display, call>>

\* the effect of lines 333-335 on mount
Mount ==
  /\ nruns = 0
  /\ UNCHANGED <<userId, date>>
  /\ StartRun(1)

\* onChange of the User ID input (line 357): fetchMapData is re-created (line 168)
\* and the effect of lines 333-335 calls it
SetUserId(v) ==
  /\ nruns \in 1..(MaxRuns - 1)
  /\ v # userId
  /\ userId' = v
  /\ date' = date
  /\ StartRun(nruns + 1)

\* onChange of the date input (line 364)
SetDate(v) ==
  /\ nruns \in 1..(MaxRuns - 1)
  /\ v # date
  /\ date' = v
  /\ userId' = userId
  /\ StartRun(nruns + 1)

\* the Load button (lines 367-369), disabled while loading
ClickLoad ==
  /\ nruns \in 1..(MaxRuns - 1)
  /\ ~loading
  /\ UNCHANGED <<userId, date>>
  /\ StartRun(nruns + 1)

(***************************************************************************)
(* Resolution of a run's network calls.  The fetch and the response.json() *)
(* of one call are resolved in one step: the run writes nothing between    *)
(* the two awaits.  The returns that follow the last call of a run (out of *)
(* fetchMapboxRoute, fetchORSSnap, processPoints and into the finally of   *)
(* line 166) run as microtasks of the same step.                           *)
(***************************************************************************)
Settle(requests, status, response) ==
  [requests EXCEPT ![Len(requests)] = [@ EXCEPT !.status = status, !.response = response]]

\* lines 154-160 throw: the catch and finally of lines 162-166
TrajectoryFails(r, kind) ==
  /\ runs[r].pc = "trajectory"
  /\ runs' = [runs EXCEPT ![r] =
                [@ EXCEPT !.pc = "done",
                          !.requests = Settle(@, kind, <<>>),
                          !.console = Append(@, "Error fetching map data:"),
                          !.alerts = @ + 1]]
  /\ loading' = FALSE
  /\ UNCHANGED <<display, userId, date, nruns, call>>

\* lines 160-161 and processPoints up to its await (lines 170-223)
TrajectoryResolves(r, body) ==
  /\ runs[r].pc = "trajectory"
  /\ LET settled == Settle(runs[r].requests, "ok", body)
         extractedPoints == ExtractPoints(body.data)
         processed == RefinePoints(extractedPoints)
     IN IF ~body.isArray
        THEN /\ runs' = [runs EXCEPT ![r] = [@ EXCEPT !.pc = "done", !.requests = settled]]
             /\ loading' = FALSE
             /\ UNCHANGED display
        ELSE IF TooFewPoints(extractedPoints)
        THEN /\ runs' = [runs EXCEPT ![r] =
                           [@ EXCEPT !.pc = "done", !.requests = settled,
                                     !.extractedPoints = extractedPoints]]
             /\ points' = extractedPoints
             /\ loading' = FALSE
             /\ UNCHANGED <<filteredPoints, orsPoints, mapboxPoints, totalDistance, center>>
        ELSE /\ runs' = [runs EXCEPT ![r] =
                           [@ EXCEPT !.pc = "snap",
                                     !.extractedPoints = extractedPoints,
                                     !.requests = Append(settled,
                                        Request("snap", 0, Len(extractedPoints)))]]
             /\ points' = extractedPoints
             /\ filteredPoints' = processed
             /\ totalDistance' = PathDistance(processed)
             /\ center' = IF Len(processed) > 0
                          THEN <<processed[1].latitude, processed[1].longitude>>
                          ELSE center
             /\ UNCHANGED <<loading, orsPoints, mapboxPoints>>
  /\ UNCHANGED <<userId, date, nruns, call>>

\* the catch of lines 259-261, then the finally of line 166
SnapCatch(r, run) ==
  /\ runs' = [runs EXCEPT ![r] =
                [run EXCEPT !.pc = "done",
                            !.console = Append(@, "Error fetching ORS snap:")]]
  /\ loading' = FALSE
  /\ UNCHANGED display

\* lines 228-246 throw
SnapFails(r, kind) ==
  /\ runs[r].pc = "snap"
  /\ SnapCatch(r, [runs[r] EXCEPT !.requests = Settle(@, kind, <<>>)])
  /\ UNCHANGED <<userId, date, nruns, call>>

\* the loop of lines 270-292 from its test at index run.i up to its next await,
\* or through lines 294-295 and the finally of line 166
RouteLoop(r, run) ==
  IF LoopIssues(run.pointsForRoute, run.i)
  THEN /\ runs' = [runs EXCEPT ![r] =
                     [run EXCEPT !.pc = "route",
                                 !.requests = @ \o DirectionsRequests(run.pointsForRoute, run.i)]]
       /\ UNCHANGED <<loading, mapboxPoints, totalDistance>>
  ELSE /\ runs' = [runs EXCEPT ![r] = [run EXCEPT !.pc = "done"]]
       /\ mapboxPoints' = run.allPoints
       /\ totalDistance' = run.totalDist
       /\ loading' = FALSE

\* lines 246-258 and fetchMapboxRoute up to its first await (lines 264-281)
SnapResolves(r, status, locations) ==
  /\ runs[r].pc = "snap"
  /\ LET settled == [runs[r] EXCEPT !.requests = Settle(@, status, locations)]
         snappedPoints == SnappedPoints(locations)
     IN IF SnapThrows(locations)
        THEN SnapCatch(r, settled)
        ELSE /\ orsPoints' = snappedPoints
             /\ RouteLoop(r, [settled EXCEPT !.pointsForRoute = snappedPoints,
                                             !.i = 0, !.allPoints = <<>>,
                                             !.totalDist = 0])
             /\ UNCHANGED <<points, filteredPoints, center>>
  /\ UNCHANGED <<userId, date, nruns, call>>

\* the catch of lines 296-298, then the finally of line 166
RouteCatch(r, run) ==
  /\ runs' = [runs EXCEPT ![r] =
                [run EXCEPT !.pc = "done",
                            !.console = Append(@, "Error fetching Mapbox route:")]]
  /\ loading' = FALSE
  /\ UNCHANGED display

\* lines 281-282 throw
RouteFails(r, kind) ==
  /\ runs[r].pc = "route"
  /\ RouteCatch(r, [runs[r] EXCEPT !.requests = Settle(@, kind, <<>>)])
  /\ UNCHANGED <<userId, date, nruns, call>>

\* a loop that stops at a response without a route
SkipChunkBreaking(run) == [run EXCEPT !.i = Len(run.pointsForRoute)]

\* the test of line 284 fails: nothing is added, and the loop steps on (line 270)
SkipChunk(run) == [run EXCEPT !.i = @ + ChunkSize]

\* lines 282-291 and the loop on to its next await or its end
RouteResolves(r, status, data) ==
  /\ runs[r].pc = "route"
  /\ LET settled == [runs[r] EXCEPT !.requests = Settle(@, status, data)]
     IN IF data.hasRoute /\ ~data.hasGeometry
        THEN RouteCatch(r, [settled EXCEPT !.totalDist = @ + data.distance])
        ELSE /\ RouteLoop(r,
                  IF data.hasRoute
                  THEN [settled EXCEPT !.totalDist = @ + data.distance,
                                       !.allPoints = ConcatDecoded(@, decodePolyline(data.geometry)),
                                       !.i = @ + ChunkSize]
                  ELSE SkipChunk(settled))
             /\ UNCHANGED <<points, filteredPoints, orsPoints, center>>
  /\ UNCHANGED <<userId, date, nruns, call>>

\* the responses explored when several runs overlap
FewBodies == {BodyNotArray, BodyEdges, BodyExample}
FewSnapBodies == {Matches(1), Matches(2)}
FewRouteBodies == {NoRoutes, Route(<<63, 63>>, 10000)}

Next ==
  \/ Mount
  \/ \E v \in UserIds : SetUserId(v)
  \/ \E v \in Dates : SetDate(v)
  \/ ClickLoad
  \/ \E r \in RunIds, kind \in Failures : TrajectoryFails(r, kind)
  \/ \E r \in RunIds, body \in FewBodies : TrajectoryResolves(r, body)
  \/ \E r \in RunIds, kind \in ThrownFailures : SnapFails(r, kind)
  \/ \E r \in RunIds, locations \in FewSnapBodies : SnapResolves(r, "ok", locations)
  \/ \E r \in RunIds : SnapResolves(r, "httpError", <<>>)
  \/ \E r \in RunIds, kind \in ThrownFailures : RouteFails(r, kind)
  \/ \E r \in RunIds, data \in FewRouteBodies : RouteResolves(r, "ok", data)
  \/ \E r \in RunIds : RouteResolves(r, "httpError", NoRoutes)

\* the component with every trigger of a run, up to MaxRuns runs
Spec == Init /\ [][Next]_vars

\* the run started on mount, alone, with every response of the services
NextRun ==
  \/ Mount
  \/ \E kind \in Failures : TrajectoryFails(1, kind)
  \/ \E body \in Bodies : TrajectoryResolves(1, body)
  \/ \E kind \in ThrownFailures : SnapFails(1, kind)
  \/ \E locations \in SnapBodies : SnapResolves(1, "ok", locations)
  \/ SnapResolves(1, "httpError", <<>>)
  \/ \E kind \in ThrownFailures : RouteFails(1, kind)
  \/ \E data \in RouteBodies : RouteResolves(1, "ok", data)
  \/ RouteResolves(1, "httpError", NoRoutes)

SpecRun == Init /\ [][NextRun]_vars

(***************************************************************************)
(* Properties                                                              *)
(***************************************************************************)
Done(r) == runs[r].pc = "done"

Pending(r) == {k \in 1..Len(runs[r].requests) : runs[r].requests[k].status = "pending"}

Directions(r) == SelectSeq(runs[r].requests, LAMBDA q : q.service = "directions")

\* C1: once a newer run has started, no step of an older run changes points,
\* filteredPoints, orsPoints, mapboxPoints or totalDistance.
C1_StaleRunWritesNothing ==
  [][\A a \in RunIds :
       (a < nruns /\ runs'[a].pc # runs[a].pc)
       => UNCHANGED <<points, filteredPoints, orsPoints, mapboxPoints, totalDistance>>]_vars

\* C2: within a run only the request issued last can be outstanding (each
\* request is issued after every earlier one has resolved), the calls follow
\* the order trajectory, snap, directions, and the directions requests are
\* issued in chunk order.
C2_OneRequestAtATime ==
  \A r \in RunIds :
    LET q == runs[r].requests
    IN /\ Cardinality(Pending(r)) <= 1
       /\ \A k \in 1..Len(q) :
            /\ q[k].status = "pending" => k = Len(q)
            /\ q[k].service = "trajectory" <=> k = 1
            /\ q[k].service = "snap" <=> k = 2
            /\ k > 2 => q[k].service = "directions" /\ q[2].status \in {"ok", "httpError"}
            /\ k > 3 => q[k - 1].from < q[k].from

\* a second directions request is outstanding, the first and the snap request resolved
C2_Witness ==
  \E r \in RunIds :
    /\ Len(runs[r].requests) = 4
    /\ runs[r].requests[4].status = "pending"
    /\ runs[r].requests[4].service = "directions"
    /\ runs[r].requests[3].status = "ok"

\* the number of directions requests of a snapped sequence of n points
ExpectedRequests(n) == (n \div 25) + (IF n % 25 >= 2 THEN 1 ELSE 0)

\* every directions request of run r was answered (with or without a route)
AllAnswered(r) ==
  \A k \in 1..Len(runs[r].requests) :
    runs[r].requests[k].service = "directions" => runs[r].requests[k].status = "ok"

\* C3: the j-th directions request of a run carries the slice [25(j-1), min(25j, n))
\* of its n snapped points, which has 2 to 25 points; a run whose directions
\* requests all succeed ends having issued one request per slice of at least 2
\* points and none for a final slice of fewer: 2 requests (25 + 5) for 30
\* points, 1 for 26, none for n < 2.
C3_ChunkSlices ==
  \A r \in RunIds :
    LET d == Directions(r)
        n == Len(runs[r].pointsForRoute)
    IN /\ \A j \in 1..Len(d) :
            /\ d[j].from = 25 * (j - 1)
            /\ d[j].to = (IF 25 * j < n THEN 25 * j ELSE n)
            /\ d[j].to - d[j].from \in 2..25
       /\ Len(d) <= ExpectedRequests(n)
       /\ (Done(r) /\ AllAnswered(r) /\ runs[r].console = <<>>)
            => /\ Len(d) = ExpectedRequests(n)
               /\ n = 30 => Len(d) = 2 /\ d[2].from = 25 /\ d[2].to = 30
               /\ n = 26 => Len(d) = 1
               /\ n < 2 => Len(d) = 0

\* a run over 30 snapped points has ended after two answered requests
C3_Witness ==
  \E r \in RunIds :
    /\ Done(r)
    /\ Len(runs[r].pointsForRoute) = 30
    /\ AllAnswered(r)
    /\ Len(Directions(r)) = 2

\* the routing loop of run r has ended without a failure: the snap response
\* was taken and nothing was caught
LoopEnded(r) ==
  /\ Done(r)
  /\ Len(runs[r].requests) >= 2
  /\ runs[r].requests[2].status \in {"ok", "httpError"}
  /\ runs[r].console = <<>>

\* the responses of run r that returned a route, in request order
RoutesReturned(r) ==
  SelectSeq([k \in 1..Len(Directions(r)) |-> Directions(r)[k].response],
            LAMBDA data : data.hasRoute)

\* C4: a directions request of a run that fails is the last request of the
\* run, and when earlier chunks had returned routes the run ends exposing the
\* points and the distance accumulated from them.
C4_FailedChunkKeepsPartialRoute ==
  \A r \in RunIds :
    \A k \in 1..Len(runs[r].requests) :
      (runs[r].requests[k].service = "directions"
       /\ runs[r].requests[k].status \in ThrownFailures)
      => /\ k = Len(runs[r].requests)
         /\ (Done(r) /\ runs[r].allPoints # <<>>)
              => /\ mapboxPoints = runs[r].allPoints
                 /\ totalDistance = runs[r].totalDist

\* C5: when the routing loop of a run has ended without a failure, mapboxPoints
\* is the concatenation, in request order, of the decoded geometries of the
\* responses that returned a route, and totalDistance is the sum of their
\* distances (not added to the refined-path distance).
C5_RouteIsConcatenation ==
  \A r \in RunIds :
    LoopEnded(r)
    => LET routes == RoutesReturned(r)
       IN /\ mapboxPoints
               = Flatten([k \in 1..Len(routes) |-> decodePolyline(routes[k].geometry)])
          /\ totalDistance = SumSeq([k \in 1..Len(routes) |-> routes[k].distance])

\* the loop has ended after two different routes, over a refined path of
\* positive length
C5_Witness ==
  \E r \in RunIds :
    /\ LoopEnded(r)
    /\ Len(RoutesReturned(r)) = 2
    /\ RoutesReturned(r)[1].geometry # RoutesReturned(r)[2].geometry
    /\ PathDistance(filteredPoints) > 0
    /\ mapboxPoints # <<>>

\* the snap request of run r failed (it is the second request of a run)
SnapFailed(r) ==
  /\ Len(runs[r].requests) >= 2
  /\ runs[r].requests[2].status \in Failures

\* C6: when the snap request of a run fails, the run issues no directions
\* request and no second snap request, and the failure is reported to the
\* caller: it reaches the catch of fetchMapData, which raises the notice.
C6_SnapFailureAbortsAndReports ==
  \A r \in RunIds :
    (Done(r) /\ SnapFailed(r))
    => /\ Len(runs[r].requests) = 2
       /\ runs[r].alerts > 0

\* the fixes of a payload that have a coordinate pair and an accuracy that is
\* absent or below 15, as points, in input order
UsableFixes(data) ==
  LET kept == SelectSeq(data, LAMBDA e :
                /\ e.isArray
                /\ Len(e.coords) = 2
                /\ (~e.hasAccuracy \/ e.accuracy < 15))
  IN [k \in 1..Len(kept) |->
        [latitude |-> kept[k].coords[2], longitude |-> kept[k].coords[1],
         createdAt |-> kept[k].timestamp]]

\* run r has received its trajectory payload
Received(r) ==
  /\ Len(runs[r].requests) >= 1
  /\ runs[r].requests[1].status = "ok"

Payload(r) == runs[r].requests[1].response

\* run r has ended as DataUnavailable
DataUnavailable(r) ==
  /\ Done(r)
  /\ Received(r)
  /\ (~Payload(r).isArray \/ Len(UsableFixes(Payload(r).data)) < 2)

\* C7: once every run has ended and the last one ended as DataUnavailable,
\* the refined, snapped and routed sequences are empty and no distance is shown.
C7_DataUnavailableShowsEmptyMap ==
  ((\A r \in RunIds : runs[r].pc \in {"idle", "done"})
   /\ nruns > 0 /\ DataUnavailable(nruns))
  => /\ filteredPoints = <<>>
     /\ orsPoints = <<>>
     /\ mapboxPoints = <<>>
     /\ totalDistance = 0

\* C8: a run whose payload is no array or has fewer than 2 usable fixes ends
\* after its trajectory request alone (no snap and no directions request),
\* writes no refined path, distance or centre, raises no notice and logs no
\* error, and leaves loading false.
C8_DataUnavailableSkipsDownstream ==
  \A r \in RunIds :
    (Received(r) /\ (~Payload(r).isArray \/ Len(UsableFixes(Payload(r).data)) < 2))
    => /\ Done(r)
       /\ Len(runs[r].requests) = 1
       /\ runs[r].alerts = 0
       /\ runs[r].console = <<>>
       /\ ~loading
       /\ filteredPoints = <<>> /\ orsPoints = <<>> /\ mapboxPoints = <<>>
       /\ totalDistance = 0
       /\ center = DefaultCenter

\* a run has ended on a payload with exactly one usable fix
C8_Witness ==
  \E r \in RunIds :
    /\ DataUnavailable(r)
    /\ Payload(r).isArray
    /\ Len(UsableFixes(Payload(r).data)) = 1
    /\ Len(Payload(r).data) > 1

\* C9: in a run that has ended, every failed call (network error, non-success
\* status, malformed response) was logged and raised the failure notice, and
\* was issued once.
C9_EveryFailureIsSurfaced ==
  \A r \in RunIds :
    \A k \in 1..Len(runs[r].requests) :
      (Done(r) /\ runs[r].requests[k].status \in Failures)
      => /\ runs[r].console # <<>>
         /\ runs[r].alerts > 0
         /\ \A j \in 1..Len(runs[r].requests) :
              (runs[r].requests[j].service = runs[r].requests[k].service
               /\ runs[r].requests[j].from = runs[r].requests[k].from) => j = k

\* C10: the points a run extracts from an array payload, and writes to
\* points, are the usable fixes of the payload in input order; on the payload
\* with accuracies 5, 20 and 8 these are the first and the third fix, and the
\* run goes on with them to the snap request.
C10_AccuracyFilter ==
  \A r \in RunIds :
    (Received(r) /\ Payload(r).isArray)
    => /\ runs[r].extractedPoints = UsableFixes(Payload(r).data)
       /\ points = UsableFixes(Payload(r).data)
       /\ Payload(r) = BodyExample
            => /\ points = <<[latitude |-> 0, longitude |-> 0, createdAt |-> 1],
                             [latitude |-> 8000, longitude |-> 8000, createdAt |-> 3]>>
               /\ Len(runs[r].requests) >= 2
               /\ runs[r].requests[2].service = "snap"
               /\ runs[r].requests[2].to = 2

\* a run has gone on with the two surviving fixes of the three-fix payload
C10_Witness ==
  \E r \in RunIds :
    /\ Received(r)
    /\ Payload(r) = BodyExample
    /\ Len(points) = 2
    /\ runs[r].pc = "snap"

(***************************************************************************)
(* The module-level functions called on their own.  A track is a sequence  *)
(* of points whose createdAt is the point's position in the track, so that *)
(* a point of an output names the input point it came from.                *)
(***************************************************************************)
TrackOf(positions) ==
  [k \in 1..Len(positions) |->
     [latitude |-> positions[k][1], longitude |-> positions[k][2], createdAt |-> k]]

Tracks(positions, maxLen) ==
  UNION {{TrackOf(f) : f \in [1..n -> positions]} : n \in 0..maxLen}

\* the input point an output point came from
Origin(point) == point.createdAt

\* output is made of points of input, in the order of input
IsSubsequenceOf(output, input) ==
  /\ \A j \in 1..Len(output) :
       /\ Origin(output[j]) \in 1..Len(input)
       /\ output[j] = input[Origin(output[j])]
  /\ \A j \in 1..(Len(output) - 1) : Origin(output[j]) < Origin(output[j + 1])

Gap(a, b) == calculateDistance(a.latitude, a.longitude, b.latitude, b.longitude)

(***************************************************************************)
(* thinPoints called on every track of up to MaxThinLen points over        *)
(* positions 1112 cm to 5658 cm apart, with thresholds 0, 12 m, 40 m and   *)
(* 45 m                                                                    *)
(***************************************************************************)
MaxThinLen == 3

ThinPositions == {<<0, 0>>, <<3000, 0>>, <<3000, 4000>>, <<-1000, 0>>}

ThinThresholds == {0, 1200, ThinDistance, 4500}

InitThin ==
  /\ Constructed
  /\ call \in {[fn |-> "thinPoints", pc |-> "called", points |-> t, minDistance |-> d,
                 result |-> <<>>] :
                  t \in Tracks(ThinPositions, MaxThinLen), d \in ThinThresholds}

CallThinPoints ==
  /\ call.fn = "thinPoints"
  /\ call.pc = "called"
  /\ call' = [call EXCEPT !.pc = "returned",
                          !.result = thinPoints(call.points, call.minDistance)]
  /\ UNCHANGED component

NextThin == CallThinPoints

SpecThin == InitThin /\ [][NextThin]_vars

\* C11: for every threshold d >= 0 and every input, what thinPoints returns is
\* made of input points in input order, starts with the first input point
\* (and is empty for the empty input), and has no two consecutive points
\* closer than d by calculateDistance - so the last input point is in it only
\* when it is at least d away from the point kept before it.
C11_ThinnedSubsequence ==
  (call.fn = "thinPoints" /\ call.pc = "returned")
  => LET input == call.points
         output == call.result
     IN /\ IsSubsequenceOf(output, input)
        /\ input = <<>> => output = <<>>
        /\ input # <<>> => (output # <<>> /\ output[1] = input[1])
        /\ \A j \in 1..(Len(output) - 1) :
             Gap(output[j], output[j + 1]) >= call.minDistance

\* thinPoints has returned at least two of three points, without the last one
C11_Witness ==
  /\ call.fn = "thinPoints" /\ call.pc = "returned"
  /\ Len(call.points) = 3
  /\ Len(call.result) = 2
  /\ call.result[2] # call.points[3]
  /\ call.minDistance > 0

(***************************************************************************)
(* removeZigzags called on every track of up to MaxZigzagLen points over   *)
(* positions that make straight legs, right angles, reversals and a pair   *)
(* of bearings either side of north, with thresholds 0, 60, 100 and 200    *)
(* degrees                                                                 *)
(***************************************************************************)
MaxZigzagLen == 4

ZigzagPositions == {<<0, 0>>, <<3000, -500>>, <<6000, 0>>, <<0, 3000>>}

ZigzagThresholds == {0, ZigzagThreshold, 10000, 20000}

InitZigzag ==
  /\ Constructed
  /\ call \in {[fn |-> "removeZigzags", pc |-> "called", points |-> t, threshold |-> d,
                 result |-> <<>>] :
                  t \in Tracks(ZigzagPositions, MaxZigzagLen), d \in ZigzagThresholds}

CallRemoveZigzags ==
  /\ call.fn = "removeZigzags"
  /\ call.pc = "called"
  /\ call' = [call EXCEPT !.pc = "returned",
                          !.result = removeZigzags(call.points, call.threshold)]
  /\ UNCHANGED component

NextZigzag == CallRemoveZigzags

SpecZigzag == InitZigzag /\ [][NextZigzag]_vars

\* the shortest angular difference, in centidegrees, between the bearing from
\* a to b and the bearing from b to c
Turn(a, b, c) ==
  LET d == (calculateBearing(b.latitude, b.longitude, c.latitude, c.longitude)
            - calculateBearing(a.latitude, a.longitude, b.latitude, b.longitude)) % 36000
  IN Min(d, 36000 - d)

\* the interior points of input whose turn between their neighbours in input
\* is below the threshold
GentleTurns(input, threshold) ==
  {i \in 2..(Len(input) - 1) : Turn(input[i - 1], input[i], input[i + 1]) < threshold}

\* C12: of an input of at least 3 points removeZigzags returns, in input
\* order, the first point, the interior points whose shortest angular
\* difference between bearing(prev, curr) and bearing(curr, next) over their
\* neighbours in the input is below the threshold, and the last point; a
\* shorter input is returned unchanged.
C12_ZigzagKeepsGentleTurns ==
  (call.fn = "removeZigzags" /\ call.pc = "returned")
  => LET input == call.points
         output == call.result
         n == Len(input)
     IN IF n < 3 THEN output = input
        ELSE /\ IsSubsequenceOf(output, input)
             /\ output[1] = input[1]
             /\ output[Len(output)] = input[n]
             /\ {Origin(output[j]) : j \in 1..Len(output)}
                  = {1, n} \cup GentleTurns(input, call.threshold)
             /\ Len(output) = 2 + Cardinality(GentleTurns(input, call.threshold))

\* removeZigzags has dropped the second of four points and kept the third,
\* whose bearings lie either side of north
C12_Witness ==
  /\ call.fn = "removeZigzags" /\ call.pc = "returned"
  /\ Len(call.points) = 4
  /\ Len(call.result) = 3
  /\ Origin(call.result[2]) = 3
  /\ calculateBearing(call.points[2].latitude, call.points[2].longitude,
                      call.points[3].latitude, call.points[3].longitude) > 27000
  /\ calculateBearing(call.points[3].latitude, call.points[3].longitude,
                      call.points[4].latitude, call.points[4].longitude) < 9000
  /\ call.threshold = ZigzagThreshold

(***************************************************************************)
(* applyKalmanFilter called on every track of up to MaxKalmanLen points,   *)
(* and run one axis filter at a time.  The coordinates of these tracks are *)
(* given to 8 decimals (units of 1e-8 degree), one more than toFixed(7)    *)
(* keeps.                                                                  *)
(***************************************************************************)
MaxKalmanLen == 3

EightDecimals == 1

KalmanPositions == {<<0, 0>>, <<30004, 29995>>, <<80000, 80017>>}

InitKalman ==
  /\ Constructed
  /\ call \in {[fn |-> "applyKalmanFilter", pc |-> "called", points |-> t, n |-> 0,
                 locals |-> [p |-> 0, k |-> 0, xLat |-> 0, xLng |-> 0],
                 smoothed |-> <<>>, result |-> <<>>] :
                  t \in Tracks(KalmanPositions, MaxKalmanLen)}

\* lines 39-49
EnterKalman ==
  /\ call.fn = "applyKalmanFilter"
  /\ call.pc = "called"
  /\ call' = IF Len(call.points) = 0
             THEN [call EXCEPT !.pc = "returned", !.result = <<>>]
             ELSE [call EXCEPT !.pc = "latitude", !.n = 1,
                               !.locals = KalmanLocals(call.points, EightDecimals)]
  /\ UNCHANGED component

\* lines 51-59, of the n-th point
FilterLatitude ==
  /\ call.fn = "applyKalmanFilter"
  /\ call.pc = "latitude"
  /\ call.n <= Len(call.points)
  /\ call' = [call EXCEPT
       !.pc = "longitude",
       !.locals = LatitudeFilter(@, parseFloat(call.points[call.n].latitude, EightDecimals))]
  /\ UNCHANGED component

\* lines 61-71, of the n-th point
FilterLongitude ==
  /\ call.fn = "applyKalmanFilter"
  /\ call.pc = "longitude"
  /\ LET locals == LongitudeFilter(call.locals,
                      parseFloat(call.points[call.n].longitude, EightDecimals))
     IN call' = [call EXCEPT !.pc = "latitude", !.n = @ + 1, !.locals = locals,
                             !.smoothed = Append(@, Smoothed(locals, call.points[call.n]))]
  /\ UNCHANGED component

\* line 74
ReturnSmoothed ==
  /\ call.fn = "applyKalmanFilter"
  /\ call.pc = "latitude"
  /\ call.n > Len(call.points)
  /\ call' = [call EXCEPT !.pc = "returned", !.result = call.smoothed]
  /\ UNCHANGED component

NextKalman == EnterKalman \/ FilterLatitude \/ FilterLongitude \/ ReturnSmoothed

SpecKalman == InitKalman /\ [][NextKalman]_vars

\* C13 as stated: applyKalmanFilter returns as many points as it is given
\* (none for the empty input), the k-th with the timestamp of the k-th input,
\* and the first with exactly the coordinates of the first input point.
C13_FirstPointUnchanged ==
  (call.fn = "applyKalmanFilter" /\ call.pc = "returned")
  => /\ Len(call.result) = Len(call.points)
     /\ \A j \in 1..Len(call.result) : call.result[j].createdAt = call.points[j].createdAt
     /\ call.points # <<>>
          => /\ call.result[1].latitude * XScale = call.points[1].latitude
             /\ call.result[1].longitude * XScale = call.points[1].longitude

\* C13 amended: applyKalmanFilter returns as many points as it is given (none
\* for the empty input), the k-th with the timestamp of the k-th input, and
\* the first with the coordinates of the first input point rounded to 7
\* decimals, that is no more than half of 1e-7 degree from them.
C13_FirstPointRounded ==
  (call.fn = "applyKalmanFilter" /\ call.pc = "returned")
  => /\ Len(call.result) = Len(call.points)
     /\ \A j \in 1..Len(call.result) : call.result[j].createdAt = call.points[j].createdAt
     /\ call.points # <<>>
          => /\ 2 * Abs(call.result[1].latitude * XScale - call.points[1].latitude) <= XScale
             /\ 2 * Abs(call.result[1].longitude * XScale - call.points[1].longitude) <= XScale

\* applyKalmanFilter has returned three points of which the first has an
\* eighth decimal in both coordinates, one rounded down and one rounded up
C13_Witness ==
  /\ call.fn = "applyKalmanFilter" /\ call.pc = "returned"
  /\ Len(call.result) = 3
  /\ call.points[1].latitude = 30004 /\ call.result[1].latitude = 3000
  /\ call.points[1].longitude = 29995 /\ call.result[1].longitude = 3000
  /\ call.points[2] # call.points[1]

(***************************************************************************)
(* decodePolyline called on its own and run one character at a time.  Its  *)
(* inputs are the standard encodings of the paths of up to MaxPathLen      *)
(* points over DecodePositions (one- and multi-character deltas of both    *)
(* signs), the reference string, and every prefix of these: a prefix that  *)
(* ends inside a delta, or after a latitude delta, is a truncated input.   *)
(***************************************************************************)
\* the standard encoder: each coordinate as the delta from the one before,
\* zig-zag coded, in 5-bit groups from the low end, 0x20 set on all but the last
ZigzagEncode(delta) == IF delta < 0 THEN -2 * delta - 1 ELSE 2 * delta

RECURSIVE EncodeValue(_)
EncodeValue(v) ==
  IF v >= 32 THEN <<32 + (v % 32) + 63>> \o EncodeValue(v \div 32) ELSE <<v + 63>>

RECURSIVE EncodeFrom(_, _, _, _)
EncodeFrom(path, k, lat, lng) ==
  IF k > Len(path) THEN <<>>
  ELSE EncodeValue(ZigzagEncode(path[k][1] - lat))
       \o EncodeValue(ZigzagEncode(path[k][2] - lng))
       \o EncodeFrom(path, k + 1, path[k][1], path[k][2])

encodePolyline(path) == EncodeFrom(path, 1, 0, 0)

MaxPathLen == 2

\* in units of 1e-5 degree
DecodePositions ==
  {<<0, 0>>, <<1, -1>>, <<16, -17>>, <<3850000, -12020000>>, <<-9000000, 18000000>>}

\* (38.5, -120.2), (40.7, -120.95), (43.252, -126.453)
ReferencePath == <<<<3850000, -12020000>>, <<4070000, -12095000>>, <<4325200, -12645300>>>>

\* "_p~iF~ps|U_ulLnnqC_mqNvxq`@"
ReferencePolyline ==
  <<95, 112, 126, 105, 70, 126, 112, 115, 124, 85, 95, 117, 108, 76, 110, 110, 113, 67,
    95, 109, 113, 78, 118, 120, 113, 96, 64>>

DecodePaths ==
  UNION {[1..n -> DecodePositions] : n \in 0..MaxPathLen} \cup {ReferencePath}

Prefixes(encoded) == {SubSeq(encoded, 1, n) : n \in 0..Len(encoded)}

DecodeInputs ==
  UNION {Prefixes(encodePolyline(path)) : path \in DecodePaths} \cup {ReferencePolyline}

InitDecode ==
  /\ Constructed
  /\ call \in {[fn |-> "decodePolyline", pc |-> "called", encoded |-> e,
                 index |-> 0, lat |-> 0, lng |-> 0, shift |-> 0, result |-> {},
                 points |-> <<>>, returned |-> <<>>] : e \in DecodeInputs}

\* lines 303-305
EnterDecode ==
  /\ call.fn = "decodePolyline"
  /\ call.pc = "called"
  /\ call' = [call EXCEPT !.pc = "while"]
  /\ UNCHANGED component

\* the test of line 307, then line 308 or line 330
WhileTest ==
  /\ call.fn = "decodePolyline"
  /\ call.pc = "while"
  /\ call' = IF call.index < Len(call.encoded)
             THEN [call EXCEPT !.pc = "latitude", !.shift = 0, !.result = {}]
             ELSE [call EXCEPT !.pc = "returned", !.returned = call.points]
  /\ UNCHANGED component

\* one pass of the do-while of lines 309-313 and, when it ends, lines 314-318
ReadLatitude ==
  /\ call.fn = "decodePolyline"
  /\ call.pc = "latitude"
  /\ LET read == ReadChar(call.encoded, call.index, call.shift, call.result)
     IN call' = IF read.again
                THEN [call EXCEPT !.index = read.index, !.shift = read.shift,
                                  !.result = read.result]
                ELSE [call EXCEPT !.pc = "longitude", !.index = read.index,
                                  !.lat = @ + ZigzagDecode(read.result),
                                  !.shift = 0, !.result = {}]
  /\ UNCHANGED component

\* one pass of the do-while of lines 319-323 and, when it ends, lines 324-327
ReadLongitude ==
  /\ call.fn = "decodePolyline"
  /\ call.pc = "longitude"
  /\ LET read == ReadChar(call.encoded, call.index, call.shift, call.result)
         lng == call.lng + ZigzagDecode(read.result)
     IN call' = IF read.again
                THEN [call EXCEPT !.index = read.index, !.shift = read.shift,
                                  !.result = read.result]
                ELSE [call EXCEPT !.pc = "while", !.index = read.index,
                                  !.shift = read.shift, !.result = read.result,
                                  !.lng = lng,
                                  !.points = Append(@, <<call.lat, lng>>)]
  /\ UNCHANGED component

NextDecode == EnterDecode \/ WhileTest \/ ReadLatitude \/ ReadLongitude

SpecDecode == InitDecode /\ [][NextDecode]_vars

\* decodePolyline is synchronous code: once called it runs on until it returns
SpecDecodeRuns == SpecDecode /\ WF_vars(NextDecode)

\* C14: decodePolyline returns the path a string was encoded from, for every
\* path of DecodePaths (negative values and multi-character deltas among
\* them), and returns (38.5, -120.2), (40.7, -120.95), (43.252, -126.453) for
\* the reference string.
C14_DecodeInvertsEncode ==
  (call.fn = "decodePolyline" /\ call.pc = "returned")
  => /\ \A path \in DecodePaths :
          call.encoded = encodePolyline(path) => call.returned = path
     /\ call.encoded = ReferencePolyline => call.returned = ReferencePath

\* decodePolyline has returned a two-point path whose deltas take one, two and
\* six characters and are of both signs
C14_Witness ==
  /\ call.fn = "decodePolyline" /\ call.pc = "returned"
  /\ call.encoded = encodePolyline(<<<<16, -17>>, <<-9000000, 18000000>>>>)
  /\ call.returned = <<<<16, -17>>, <<-9000000, 18000000>>>>
  /\ Len(call.encoded) > 8

\* the number of deltas a string holds in full: the characters without 0x20
CompleteDeltas(encoded) ==
  Cardinality({k \in 1..Len(encoded) : encoded[k] - 63 < 32})

\* the string ends while the continuation bit is set, or after a latitude
\* delta with no longitude delta
Truncated(encoded) ==
  /\ encoded # <<>>
  /\ \/ encoded[Len(encoded)] - 63 >= 32
     \/ CompleteDeltas(encoded) % 2 = 1

\* C15: on an input whose final delta is truncated decodePolyline raises an
\* error: it never returns a coordinate list.
C15_TruncatedInputRaises ==
  (call.fn = "decodePolyline" /\ Truncated(call.encoded)) => call.pc # "returned"

\* C16: every pass of an inner loop advances the read index by one; an inner
\* loop entered or continued at or past the end of the string ends with that
\* pass, and the outer loop then returns; and every call of decodePolyline
\* returns.
C16_DecodeTerminates ==
  /\ [][(call.fn = "decodePolyline" /\ call.pc \in {"latitude", "longitude"})
         => /\ call'.index = call.index + 1
            /\ call.index >= Len(call.encoded) => call'.pc # call.pc]_vars
  /\ [][(call.fn = "decodePolyline" /\ call.pc = "while"
          /\ call.index >= Len(call.encoded))
         => call'.pc = "returned"]_vars
  /\ <>(call.fn = "decodePolyline" /\ call.pc = "returned")

\* decodePolyline has returned from a truncated string, having read past its end
C16_Witness ==
  /\ call.fn = "decodePolyline" /\ call.pc = "returned"
  /\ Truncated(call.encoded)
  /\ call.index > Len(call.encoded)
  /\ Len(call.encoded) > 2

(***************************************************************************)
(* Properties of the routing loop on malformed and empty responses         *)
(***************************************************************************)
\* the routes returned to run r whose geometry is not truncated, in request order
WellFormedRoutes(r) ==
  SelectSeq(RoutesReturned(r), LAMBDA data : ~Truncated(data.geometry))

\* C17: when the routing loop of a run has ended, the route it exposes holds
\* no point decoded from a truncated geometry: it is the concatenation, in
\* request order, of the decoded geometries of the other chunks.
C17_MalformedChunkContributesNothing ==
  \A r \in RunIds :
    LoopEnded(r)
    => mapboxPoints
         = Flatten([k \in 1..Len(WellFormedRoutes(r)) |->
                      decodePolyline(WellFormedRoutes(r)[k].geometry)])

(***************************************************************************)
(* The covariance and gain of one 1-D filter of section 4.3, started at    *)
(* p = 1.0 and advanced once per measurement                               *)
(***************************************************************************)
RECURSIVE CovarianceAfter(_)
CovarianceAfter(measurements) ==
  IF measurements = 0 THEN KalmanP0
  ELSE LET p == CovarianceAfter(measurements - 1) + KalmanQ
       IN KalmanCovariance(KalmanGain(p), p)

\* the gain such a filter applies to its j-th measurement
GainAt(j) == KalmanGain(CovarianceAfter(j - 1) + KalmanQ)

\* C18: applyKalmanFilter advances the covariance of each axis once per
\* point: between two points, after j of them, p is the covariance of a 1-D
\* filter after j measurements, and the gain applied to the latitude of the
\* j-th point and the gain applied to its longitude are both that filter's
\* gain for its j-th measurement.
C18_AxesFilteredIndependently ==
  (call.fn = "applyKalmanFilter" /\ call.pc \in {"latitude", "longitude"})
  => LET done == Len(call.smoothed)
     IN /\ call.pc = "latitude"
             => /\ call.locals.p = CovarianceAfter(done)
                /\ done >= 1 => call.locals.k = GainAt(done)
        /\ call.pc = "longitude" => call.locals.k = GainAt(done + 1)

(***************************************************************************)
(* Properties of the loading flag                                          *)
(***************************************************************************)
\* run r is between its setLoading(true) and its finally block
InFlight(r) == runs[r].pc \in {"trajectory", "snap", "route"}

\* C19: loading is true whenever some run is in flight, that is, has a
\* network call outstanding.
C19_LoadingWhileInFlight ==
  (\E r \in RunIds : InFlight(r)) => loading

(***************************************************************************)
(* Properties of a directions response without a route                     *)
(***************************************************************************)
\* the k-th request of run r is a directions request answered without a route
NoRouteAt(r, k) ==
  /\ runs[r].requests[k].service = "directions"
  /\ runs[r].requests[k].status \in {"ok", "httpError"}
  /\ ~runs[r].requests[k].response.hasRoute

\* the directions request q was answered with a route
RouteAt(q) == q.status \in {"ok", "httpError"} /\ q.response.hasRoute

\* the routes run r has received so far, in request order
RoutesSoFar(r) ==
  LET answered == SelectSeq(Directions(r), RouteAt)
  IN [j \in 1..Len(answered) |-> answered[j].response]

\* C20: a directions response without a route raises no notice and logs
\* nothing; the points and the distance accumulated are those of the
\* responses with a route; when at least 2 snapped points lie beyond the
\* chunk the request for the next chunk has been issued, and otherwise the
\* run has ended; a run that ends with no request failed has written the
\* route and the distance accumulated from the other chunks.
C20_NoRouteChunkIsSkipped ==
  \A r \in RunIds :
    \A k \in 1..Len(runs[r].requests) :
      NoRouteAt(r, k)
      => LET q == runs[r].requests
             n == Len(runs[r].pointsForRoute)
             routes == RoutesSoFar(r)
             decoded == Flatten([j \in 1..Len(routes) |-> decodePolyline(routes[j].geometry)])
             distance == SumSeq([j \in 1..Len(routes) |-> routes[j].distance])
         IN /\ runs[r].alerts = 0
            /\ k = Len(q) => runs[r].console = <<>>
            /\ runs[r].console = <<>>
                 => (runs[r].allPoints = decoded /\ runs[r].totalDist = distance)
            /\ (Done(r) /\ runs[r].console = <<>>)
                 => (mapboxPoints = decoded /\ totalDistance = distance)
            /\ IF n - (q[k].from + 25) >= 2
               THEN /\ Len(q) > k
                    /\ q[k + 1].service = "directions"
                    /\ q[k + 1].from = q[k].from + 25
               ELSE /\ k = Len(q)
                    /\ Done(r)
                    /\ mapboxPoints = decoded
                    /\ totalDistance = distance

\* a run over 52 snapped points has ended after three requests, the second
\* answered without a route, the first and the third with one
C20_Witness ==
  \E r \in RunIds :
    /\ Done(r)
    /\ Len(Directions(r)) = 3
    /\ NoRouteAt(r, 4)
    /\ RouteAt(Directions(r)[1])
    /\ RouteAt(Directions(r)[3])
    /\ Len(mapboxPoints) > 1
    /\ totalDistance > 0

=============================================================================
